---- MODULE Spec2Model ----
(***************************************************************************)
(* Model of khalil-research/DMIPL, the two files                           *)
(*   src/src/problem/neuromancer/rosenbrock.py  (problem definition and    *)
(*                                               its __main__ driver)      *)
(*   src/submit_rb.py                           (experiment driver)        *)
(*                                                                         *)
(* One interpreter process is modelled.  It either imports rosenbrock.py   *)
(* as a library, runs rosenbrock.py as a script, or runs submit_rb.py.     *)
(* Symbolic neuromancer expressions are records that keep every index the  *)
(* code writes, so that an expression can be evaluated and its indices     *)
(* compared with the widths of the tensors.                                *)
(***************************************************************************)
EXTENDS Integers, Sequences, FiniteSets, TLC

VARIABLES
    script,     \* which file the interpreter runs: "none", "import", "rosenbrock.py", "submit_rb.py"
    pc,         \* position of the interpreter in that file
    num_vars,   \* rosenbrock.py's module-level name num_vars: [bound, value]
    call,       \* the last call of rosenbrock(): its arguments and its outcome
    config,     \* the driver's configuration (argparse namespace / driver constants)
    rng,        \* number of values drawn so far from the seeded random stream
    data,       \* the three datasets (train / test / dev)
    loaders,    \* the three DataLoader objects
    smap,       \* rosenbrock.py's solution-map MLP and Node
    pass        \* the DataLoader iterator in use: order, position, batches yielded

vars == <<script, pc, num_vars, call, config, rng, data, loaders, smap, pass>>

(***************************************************************************)
(* Bounds of the model.                                                    *)
(***************************************************************************)
\* largest problem dimension explored (rosenbrock.py line 75 sets 10)
MaxNumVars == 3
\* a DataLoader pass is explored on datasets of 0..MaxRows rows ...
MaxRows == 3
\* ... and batch sizes 1..MaxBatch
MaxBatch == 2

\* values of the num_vars argument tried in calls of rosenbrock()
NumVarsArgs == (0 - 1)..MaxNumVars
\* values of penalty_weight tried in calls of rosenbrock()
PenaltyWeights == {2, 100}
\* lists of decision-variable names tried
VarKeyLists == { <<>>, <<"x">>, <<"x", "x">>, <<"x", "y">> }
\* lists of parameter names tried
ParamKeyLists == { <<"p">>, <<"p", "a">>, <<"a", "p">>, <<"p", "p">>,
                   <<"p", "a", "a">>, <<"p", "a", "b">> }
\* component values at which expressions are evaluated
XVals == {0 - 1, 0, 1}
AVals == {1, 2}

(***************************************************************************)
(* Python helpers.                                                         *)
(***************************************************************************)
\* range(n) as the sequence 0, 1, ..., n-1 (empty when n <= 0)
PyRange(n) == [k \in 1..(IF n > 0 THEN n ELSE 0) |-> k - 1]

RECURSIVE DictKeysFrom(_, _, _)
DictKeysFrom(keys, k, acc) ==
    IF k > Len(keys) THEN acc
    ELSE DictKeysFrom(keys, k + 1,
                      IF \E j \in 1..Len(acc) : acc[j] = keys[k]
                      THEN acc ELSE Append(acc, keys[k]))

\* d = {}; for k in keys: d[k] = variable(k)  -- the dict's values in insertion
\* order; a repeated key overwrites its entry and adds none
VariableDict(keys) == DictKeysFrom(keys, 1, <<>>)

\* sum(generator, start) with a neuromancer zero as start: never an int
PySum_Variable(terms) == [kind |-> "variable", terms |-> terms]

\* sum(generator): starts from the int 0, so an empty generator gives an int
\* and a non-empty one a neuromancer variable (0 + term + term + ...)
PySum(terms) ==
    [kind |-> IF terms = <<>> THEN "int" ELSE "variable", terms |-> terms]

Raise(exc) == [status |-> exc]
Return(v) == [status |-> "ok", value |-> v]

(***************************************************************************)
(* rosenbrock.py: get_obj                                                  *)
(***************************************************************************)
\* range(num_vars) in place of range(num_vars-1)
ObjRange_Full(n) == PyRange(n)

\* the indices the objective sums over: range(num_vars-1)
ObjRange(n) == PyRange(n - 1)

\* x[:, i] in place of x[:, i + 1]
ObjTerm_SameIndex(x, a, i) == [x |-> x, a |-> a, xi |-> i, ai |-> i, xj |-> i]

\* (1 - x[:, i]) ** 2 + a[:, i] * (x[:, i + 1] - x[:, i] ** 2) ** 2
ObjTerm(x, a, i) == [x |-> x, a |-> a, xi |-> i, ai |-> i, xj |-> i + 1]

\* f.minimize(weight=1.0, name="obj")
minimize(f, weight, name) ==
    [name |-> name, direction |-> "minimize", weight |-> weight, terms |-> f.terms]

get_obj(vs, params, n) ==
    IF Len(vs) # 1 THEN Raise("ValueError")            \* x, = vars.values()
    ELSE IF Len(params) # 2 THEN Raise("ValueError")   \* p, a = params.values()
    ELSE LET x == vs[1]
             a == params[2]
             r == ObjRange(n)
             f == PySum([k \in 1..Len(r) |-> ObjTerm(x, a, r[k])])
         IN  IF f.kind = "int" THEN Raise("AttributeError")  \* int has no minimize
             ELSE Return(minimize(f, 1, "obj"))

(***************************************************************************)
(* rosenbrock.py: get_constrs.  Its third parameter is named               *)
(* penalty_weight; num_vars in its body is the module-level name.          *)
(***************************************************************************)
\* (-1) ** i * x[:, i]
AltTerm(x, i) == [x |-> x, sign |-> IF i % 2 = 0 THEN 1 ELSE 0 - 1, xi |-> i, pow |-> 1]
\* x[:, i] ** 2
SqTerm(x, i) == [x |-> x, sign |-> 1, xi |-> i, pow |-> 2]

\* penalty_weight * (g >= bound) / penalty_weight * (g <= bound); con.name = name
\* bound is 0 (pcol = -1) or p[:, pcol] / div
Constraint(name, weight, g, op, p, pcol, div) ==
    [name |-> name, weight |-> weight, lhs |-> g.terms, op |-> op,
     p |-> p, pcol |-> pcol, div |-> div]

get_constrs(vs, params, penalty_weight, module_num_vars) ==
    IF Len(vs) # 1 THEN Raise("ValueError")
    ELSE IF Len(params) # 2 THEN Raise("ValueError")
    ELSE IF ~module_num_vars.bound THEN Raise("NameError")   \* range(num_vars)
    ELSE LET x == vs[1]
             p == params[1]
             r == PyRange(module_num_vars.value)
             g0 == PySum([k \in 1..Len(r) |-> AltTerm(x, r[k])])
             g1 == PySum([k \in 1..Len(r) |-> SqTerm(x, r[k])])
         IN  IF g0.kind = "int" THEN Raise("AttributeError")  \* con.name on an int
             ELSE Return(<< Constraint("c0", penalty_weight, g0, ">=", p, 0 - 1, 1),
                            Constraint("c1", penalty_weight, g1, ">=", p, 0, 2),
                            Constraint("c2", penalty_weight, g1, "<=", p, 0, 1) >>)

(***************************************************************************)
(* rosenbrock.py: rosenbrock.  The record keeps the arguments, what        *)
(* get_obj gave, and what the call returned (nothing when it raised).      *)
(***************************************************************************)
rosenbrock(site, var_keys, param_keys, penalty_weight, n, module_num_vars) ==
    LET params == VariableDict(param_keys)
        vs == VariableDict(var_keys)
        o == get_obj(vs, params, n)
        \* line 18 passes num_vars where get_constrs expects penalty_weight
        c == IF o.status = "ok" THEN get_constrs(vs, params, n, module_num_vars)
             ELSE Raise("not called")
        args == [site |-> site, var_keys |-> var_keys, param_keys |-> param_keys,
                 penalty_weight |-> penalty_weight, num_vars |-> n]
    IN  [args |-> args,
         get_obj |-> o,
         status |-> IF o.status # "ok" THEN o.status
                    ELSE IF c.status # "ok" THEN c.status ELSE "returned",
         obj |-> IF o.status = "ok" /\ c.status = "ok" THEN <<o.value>> ELSE <<>>,
         constrs |-> IF o.status = "ok" /\ c.status = "ok" THEN c.value ELSE <<>>]

NoCall == [status |-> "none"]

(***************************************************************************)
(* Random sampling.  Every array remembers which values of the seeded      *)
(* stream it holds: rows * cols consecutive draws starting at `first`.     *)
(***************************************************************************)
\* a generator seeded anew before every draw: each array starts the stream again
uniform_Reseeded(pos, rows, cols) == [rows |-> rows, cols |-> cols, first |-> 0]

\* np.random.uniform(low, high, (rows, cols)) / torch.FloatTensor(rows, cols).uniform_()
\* called when `pos` values have been drawn
uniform(pos, rows, cols) == [rows |-> rows, cols |-> cols, first |-> pos]

\* number of values an array holds
Size(arr) == arr.rows * arr.cols

\* rows lo, lo+1, ..., lo+count-1 of an array
RowSlice(arr, lo, count) ==
    [rows |-> count, cols |-> arr.cols, first |-> arr.first + lo * arr.cols]

\* DictDataset({"p": p, "a": a}, name=name)
DictDataset(p, a, name) == [name |-> name, p |-> p, a |-> a]

\* a loader built with drop_last=True
DataLoader_DropLast(dataset, batch_size, shuffle) ==
    [dataset |-> dataset.name, rows |-> dataset.p.rows, batch_size |-> batch_size,
     shuffle |-> shuffle, drop_last |-> TRUE]

\* DataLoader(dataset, batch_size, num_workers=0, collate_fn=..., shuffle=shuffle);
\* drop_last keeps its default
DataLoader(dataset, batch_size, shuffle) ==
    [dataset |-> dataset.name, rows |-> dataset.p.rows, batch_size |-> batch_size,
     shuffle |-> shuffle, drop_last |-> FALSE]

NoData == [status |-> "none"]
NoLoaders == [status |-> "none"]
NoConfig == [status |-> "none"]
NoSmap == [status |-> "none"]
NoPass == [status |-> "none"]

(***************************************************************************)
(* submit_rb.py                                                            *)
(***************************************************************************)
\* choices=[1, 10, 100, 1000, 10000]
SizeChoices == {1, 10, 100, 1000, 10000}
\* choices=[800, 8000, 80000]
SamplesChoices == {800, 8000, 80000}

\* a command-line option: absent, or given with an integer value
Absent == [given |-> FALSE, value |-> 0]
Given(v) == [given |-> TRUE, value |-> v]
\* command lines tried
SizeArgv == {Absent} \cup {Given(v) : v \in SizeChoices \cup {0, 7, 100000}}
SamplesArgv == {Absent} \cup {Given(v) : v \in SamplesChoices \cup {80, 1000}}

\* the value argparse stores for an option
ArgValue(arg, default) == IF arg.given THEN arg.value ELSE default

\* the literal {1:4, 10:16, 100:64, 1000:256, 10000:1024, 10000:4096}, as written
hsize_literal ==
    << <<1, 4>>, <<10, 16>>, <<100, 64>>, <<1000, 256>>, <<10000, 1024>>, <<10000, 4096>> >>

RECURSIVE DictFrom(_, _, _)
DictFrom(lit, k, acc) ==
    IF k > Len(lit) THEN acc
    ELSE LET key == lit[k][1]
             val == lit[k][2]
         IN  DictFrom(lit, k + 1,
                 IF \E j \in 1..Len(acc) : acc[j].key = key
                 THEN [j \in 1..Len(acc) |->
                         IF acc[j].key = key THEN [key |-> key, value |-> val] ELSE acc[j]]
                 ELSE Append(acc, [key |-> key, value |-> val]))

\* a dict display is evaluated left to right; a repeated key keeps the last value
PyDict(lit) == DictFrom(lit, 1, <<>>)

hsize_dict == PyDict(hsize_literal)

\* d[k]
GetItem(d, k) ==
    IF \E j \in 1..Len(d) : d[j].key = k
    THEN Return((CHOOSE e \in {d[j] : j \in 1..Len(d)} : e.key = k).value)
    ELSE Raise("KeyError")

\* parser.parse_args(): a value outside `choices` ends the process (SystemExit)
Parse(size_arg, samples_arg) ==
    /\ script = "none"
    /\ script' = "submit_rb.py"
    /\ rng' = 0                                   \* np.random.seed(42)
    /\ LET size == ArgValue(size_arg, 1)
           samples == ArgValue(samples_arg, 8000)
       IN  IF size \in SizeChoices /\ samples \in SamplesChoices
           THEN /\ pc' = "parsed"
                /\ config' = [status |-> "parsed", size |-> size, samples |-> samples]
           ELSE /\ pc' = "exit"
                /\ config' = NoConfig
    /\ UNCHANGED <<num_vars, call, data, loaders, smap, pass>>

\* lines 40-53
Configure ==
    /\ script = "submit_rb.py" /\ pc = "parsed"
    /\ LET hsize == GetItem(hsize_dict, config.size)
       IN  IF hsize.status = "ok"
           THEN /\ pc' = "configured"
                /\ config' = [status |-> "configured",
                              size |-> config.size, samples |-> config.samples,
                              steepness |-> 50,
                              num_blocks |-> config.size,
                              train_size |-> config.samples,
                              test_size |-> 100,
                              val_size |-> 1000,
                              batch_size |-> 64,
                              hlayers_sol |-> 5,
                              hlayers_rnd |-> 4,
                              hsize |-> hsize.value,
                              penalty |-> 100]
           ELSE /\ pc' = "crashed"
                /\ config' = config
    /\ UNCHANGED <<script, num_vars, call, rng, data, loaders, smap, pass>>

\* lines 56-68
Sample ==
    /\ script = "submit_rb.py" /\ pc = "configured"
    /\ LET p_train == uniform(rng, config.train_size, 1)
           p_test == uniform(p_train.first + Size(p_train), config.test_size, 1)
           p_val == uniform(p_test.first + Size(p_test), config.val_size, 1)
           a_train == uniform(p_val.first + Size(p_val), config.train_size, config.num_blocks)
           a_test == uniform(a_train.first + Size(a_train), config.test_size, config.num_blocks)
           a_val == uniform(a_test.first + Size(a_test), config.val_size, config.num_blocks)
       IN  /\ data' = [status |-> "split",
                       total |-> config.train_size + config.test_size + config.val_size,
                       test_size |-> config.test_size,
                       val_size |-> config.val_size,
                       train |-> DictDataset(p_train, a_train, "train"),
                       test |-> DictDataset(p_test, a_test, "test"),
                       dev |-> DictDataset(p_val, a_val, "dev")]
           /\ rng' = a_val.first + Size(a_val)
    /\ pc' = "sampled"
    /\ UNCHANGED <<script, num_vars, call, config, loaders, smap, pass>>

\* lines 70-74
BuildLoaders ==
    /\ script = "submit_rb.py" /\ pc = "sampled"
    /\ loaders' = [status |-> "built",
                   train |-> DataLoader(data.train, config.batch_size, TRUE),
                   test |-> DataLoader(data.test, config.batch_size, FALSE),
                   dev |-> DataLoader(data.dev, config.batch_size, TRUE)]
    /\ pc' = "loaders"
    /\ UNCHANGED <<script, num_vars, call, config, rng, data, smap, pass>>

(***************************************************************************)
(* rosenbrock.py used as a library, and as a script (its __main__ block)   *)
(***************************************************************************)
\* import src.problem.neuromancer.rosenbrock: the __main__ block does not run,
\* so the module has no name num_vars
Import ==
    /\ script = "none"
    /\ script' = "import"
    /\ pc' = "imported"
    /\ UNCHANGED <<num_vars, call, config, rng, data, loaders, smap, pass>>

\* lines 70-78 of the script; the dimension (10 in the file) ranges over 1..MaxNumVars
MainInit(n) ==
    /\ script = "none"
    /\ script' = "rosenbrock.py"
    /\ pc' = "main_init"
    /\ rng' = 0                                   \* torch.manual_seed(42)
    /\ num_vars' = [bound |-> TRUE, value |-> n]
    /\ config' = [status |-> "configured", num_data |-> 5000,
                  test_size |-> 1000, val_size |-> 1000]
    /\ UNCHANGED <<call, data, loaders, smap, pass>>

\* a call rosenbrock(var_keys, param_keys, penalty_weight, num_vars) made while the
\* module is loaded: num_vars is unbound in an importing process and bound once
\* the script has executed line 75
Call(var_keys, param_keys, penalty_weight, n) ==
    /\ pc \in {"imported", "main_init"}
    /\ call' = rosenbrock("caller", var_keys, param_keys, penalty_weight, n, num_vars)
    /\ UNCHANGED <<script, pc, num_vars, config, rng, data, loaders, smap, pass>>

\* lines 81-85
MainSample ==
    /\ script = "rosenbrock.py" /\ pc = "main_init"
    /\ LET p_samples == uniform(rng, config.num_data, 1)
           a_samples == uniform(p_samples.first + Size(p_samples),
                                config.num_data, num_vars.value - 1)
       IN  /\ data' = [status |-> "sampled", p |-> p_samples, a |-> a_samples]
           /\ rng' = a_samples.first + Size(a_samples)
    /\ pc' = "main_sampled"
    /\ UNCHANGED <<script, num_vars, call, config, loaders, smap, pass>>

\* src.utlis.data_split(data, test_size, val_size): the three splits are disjoint
\* groups of rows of the sampled arrays, of sizes N - test_size - val_size,
\* test_size and val_size; sizes that do not leave a training row are an error
data_split(d, test_size, val_size) ==
    LET N == d.p.rows
        train_size == N - test_size - val_size
    IN  IF test_size + val_size >= N THEN Raise("ValueError")
        ELSE Return([status |-> "split",
                     total |-> N,
                     test_size |-> test_size,
                     val_size |-> val_size,
                     train |-> DictDataset(RowSlice(d.p, 0, train_size),
                                           RowSlice(d.a, 0, train_size), "train"),
                     test |-> DictDataset(RowSlice(d.p, train_size, test_size),
                                          RowSlice(d.a, train_size, test_size), "test"),
                     dev |-> DictDataset(RowSlice(d.p, train_size + test_size, val_size),
                                         RowSlice(d.a, train_size + test_size, val_size), "dev")])

\* lines 87-88
MainSplit ==
    /\ script = "rosenbrock.py" /\ pc = "main_sampled"
    /\ LET r == data_split(data, config.test_size, config.val_size)
       IN  IF r.status = "ok"
           THEN data' = r.value /\ pc' = "main_split"
           ELSE data' = data /\ pc' = "crashed"
    /\ UNCHANGED <<script, num_vars, call, config, rng, loaders, smap, pass>>

\* lines 90-96
MainLoaders ==
    /\ script = "rosenbrock.py" /\ pc = "main_split"
    /\ loaders' = [status |-> "built",
                   train |-> DataLoader(data.train, 32, TRUE),
                   test |-> DataLoader(data.test, 32, TRUE),
                   dev |-> DataLoader(data.dev, 32, TRUE)]
    /\ pc' = "main_loaders"
    /\ UNCHANGED <<script, num_vars, call, config, rng, data, smap, pass>>

\* nm.modules.blocks.MLP(insize=num_vars, outsize=num_vars, ...) and
\* nm.system.Node(func, ["p", "a"], ["x"], name="smap")
MLPNode(n) ==
    [status |-> "built", insize |-> n, outsize |-> n,
     input_keys |-> <<"p", "a">>, output_keys |-> <<"x">>]

\* lines 98-110: the script's own call of rosenbrock, then the solution map;
\* an exception ends the script
MainProblem ==
    /\ script = "rosenbrock.py" /\ pc = "main_loaders"
    /\ LET c == rosenbrock("driver", <<"x">>, <<"p", "a">>, 100, num_vars.value, num_vars)
       IN  /\ call' = c
           /\ IF c.status = "returned"
              THEN smap' = MLPNode(num_vars.value) /\ pc' = "main_problem"
              ELSE smap' = smap /\ pc' = "crashed"
    /\ UNCHANGED <<script, num_vars, config, rng, data, loaders, pass>>

(***************************************************************************)
(* torch.utils.data.DataLoader: one pass (for batch in loader).  The       *)
(* sampler fixes the order of the rows at the start of the pass, the batch *)
(* sampler cuts it into batches.  A pass is explored on a dataset of       *)
(* R <= MaxRows rows with batch size B <= MaxBatch; the loader gives the   *)
(* sampler (shuffle) and drop_last.                                        *)
(***************************************************************************)
\* SequentialSampler: 1, 2, ..., R
Identity(R) == [i \in 1..R |-> i]

\* RandomSampler: any permutation of the rows, drawn anew for each pass
Permutation(R) == {f \in [1..R -> 1..R] : \A i, j \in 1..R : f[i] = f[j] => i = j}

Sampler(shuffle, R) == IF shuffle THEN Permutation(R) ELSE {Identity(R)}

\* BatchSampler: is there another batch after `pos` rows
HasNext(pos, R, B, drop_last) == IF drop_last THEN pos + B <= R ELSE pos < R

\* BatchSampler: the position after the next batch
BatchEnd(pos, R, B) == IF pos + B < R THEN pos + B ELSE R

RECURSIVE BatchSizesFrom(_, _, _, _)
BatchSizesFrom(pos, R, B, drop_last) ==
    IF HasNext(pos, R, B, drop_last)
    THEN <<BatchEnd(pos, R, B) - pos>> \o BatchSizesFrom(BatchEnd(pos, R, B), R, B, drop_last)
    ELSE <<>>

\* the sizes of the batches of one pass over R rows
BatchSizes(R, B, drop_last) == BatchSizesFrom(0, R, B, drop_last)

\* iter(loader): a new pass; a loader whose pass is exhausted can be iterated again
Iter(l, R, B, order) ==
    /\ \/ script = "submit_rb.py" /\ pc = "loaders"
       \/ script = "rosenbrock.py" /\ pc = "main_problem"
    /\ \/ pass.status = "none"
       \/ pass.status = "exhausted" /\ pass.loader = l /\ pass.rows = R /\ pass.batch_size = B
    /\ order \in Sampler(loaders[l].shuffle, R)
    /\ pass' = [status |-> "iterating", loader |-> l, shuffle |-> loaders[l].shuffle,
                drop_last |-> loaders[l].drop_last, rows |-> R, batch_size |-> B,
                order |-> order, pos |-> 0, batches |-> <<>>]
    /\ UNCHANGED <<script, pc, num_vars, call, config, rng, data, loaders, smap>>

\* next(iterator) that yields a batch
NextBatch ==
    /\ pass.status = "iterating"
    /\ HasNext(pass.pos, pass.rows, pass.batch_size, pass.drop_last)
    /\ LET end == BatchEnd(pass.pos, pass.rows, pass.batch_size)
       IN  pass' = [pass EXCEPT !.pos = end,
                                !.batches = Append(@, SubSeq(pass.order, pass.pos + 1, end))]
    /\ UNCHANGED <<script, pc, num_vars, call, config, rng, data, loaders, smap>>

\* next(iterator) that ends the pass
StopIteration ==
    /\ pass.status = "iterating"
    /\ ~HasNext(pass.pos, pass.rows, pass.batch_size, pass.drop_last)
    /\ pass' = [pass EXCEPT !.status = "exhausted"]
    /\ UNCHANGED <<script, pc, num_vars, call, config, rng, data, loaders, smap>>

(***************************************************************************)
(* The specification                                                       *)
(***************************************************************************)
Init ==
    /\ script = "none"
    /\ pc = "start"
    /\ num_vars = [bound |-> FALSE, value |-> 0]
    /\ call = NoCall
    /\ config = NoConfig
    /\ rng = 0
    /\ data = NoData
    /\ loaders = NoLoaders
    /\ smap = NoSmap
    /\ pass = NoPass

Next ==
    \/ Import
    \/ \E n \in 1..MaxNumVars : MainInit(n)
    \/ \E vk \in VarKeyLists, pk \in ParamKeyLists, pw \in PenaltyWeights, n \in NumVarsArgs :
          Call(vk, pk, pw, n)
    \/ MainSample
    \/ MainSplit
    \/ MainLoaders
    \/ MainProblem
    \/ \E sa \in SizeArgv, na \in SamplesArgv : Parse(sa, na)
    \/ Configure
    \/ Sample
    \/ BuildLoaders
    \/ \E l \in {"train", "test", "dev"}, R \in 0..MaxRows, B \in 1..MaxBatch :
          \E order \in Permutation(R) : Iter(l, R, B, order)
    \/ NextBatch
    \/ StopIteration

Spec == Init /\ [][Next]_vars

\* the consumer of a pass (the trainer's for loop) keeps asking for the next batch
FairSpec == Spec /\ WF_vars(NextBatch) /\ WF_vars(StopIteration)

(***************************************************************************)
(* Evaluation of the symbolic expressions at a point: xv, av, pv map a     *)
(* column index (from 0) to the value of that column.                      *)
(***************************************************************************)
Sq(v) == v * v

RECURSIVE SeqSum(_)
SeqSum(s) == IF s = <<>> THEN 0 ELSE Head(s) + SeqSum(Tail(s))

\* (1 - x[:, i]) ** 2 + a[:, i] * (x[:, i + 1] - x[:, i] ** 2) ** 2 at xv, av
ObjTermValue(t, xv, av) == Sq(1 - xv[t.xi]) + av[t.ai] * Sq(xv[t.xj] - Sq(xv[t.xi]))

ObjValue(o, xv, av) ==
    SeqSum([k \in 1..Len(o.terms) |-> ObjTermValue(o.terms[k], xv, av)])

\* the left-hand side g of a constraint at xv
LhsValue(c, xv) ==
    SeqSum([k \in 1..Len(c.lhs) |->
              c.lhs[k].sign * (IF c.lhs[k].pow = 2 THEN Sq(xv[c.lhs[k].xi]) ELSE xv[c.lhs[k].xi])])

\* whether g >= bound / g <= bound holds at xv, pv (g >= p/div is g*div >= p)
ConstraintHolds(c, xv, pv) ==
    LET g == LhsValue(c, xv)
    IN  IF c.pcol < 0 THEN (IF c.op = ">=" THEN g >= 0 ELSE g <= 0)
        ELSE IF c.op = ">=" THEN g * c.div >= pv[c.pcol] ELSE g * c.div <= pv[c.pcol]

\* the column indices an objective / a constraint reads
ObjXIndices(o) == {o.terms[k].xi : k \in 1..Len(o.terms)} \cup {o.terms[k].xj : k \in 1..Len(o.terms)}
ObjAIndices(o) == {o.terms[k].ai : k \in 1..Len(o.terms)}
ConXIndices(c) == {c.lhs[k].xi : k \in 1..Len(c.lhs)}
ConPIndices(c) == IF c.pcol < 0 THEN {} ELSE {c.pcol}

(***************************************************************************)
(* Claims                                                                  *)
(***************************************************************************)
\* a call with the name lists the problem expects and a dimension of at least 2
WellFormedCall ==
    /\ call.status # "none"
    /\ call.args.var_keys = <<"x">>
    /\ call.args.param_keys = <<"p", "a">>
    /\ call.args.num_vars >= 2

\* C1: every call of rosenbrock that returns scales each of c0, c1, c2 by the
\* penalty_weight argument of the call.
C1_PenaltyWeight ==
    call.status = "returned" =>
        /\ Len(call.constrs) = 3
        /\ \A k \in 1..Len(call.constrs) : call.constrs[k].weight = call.args.penalty_weight

\* the Rosenbrock sum over i = 0..m: (1 - x_i)^2 + a_i (x_{i+1} - x_i^2)^2
RECURSIVE RosenbrockUpTo(_, _, _)
RosenbrockUpTo(m, xv, av) ==
    IF m < 0 THEN 0
    ELSE RosenbrockUpTo(m - 1, xv, av) + Sq(1 - xv[m]) + av[m] * Sq(xv[m + 1] - Sq(xv[m]))

\* C2: for num_vars >= 2 get_obj builds an objective named "obj", to be minimized,
\* whose value at every x, a is the Rosenbrock sum over i = 0..num_vars-2; it is 0
\* at x = all ones for every a.
C2_Objective ==
    WellFormedCall =>
        /\ call.get_obj.status = "ok"
        /\ LET o == call.get_obj.value
               n == call.args.num_vars
           IN  /\ o.name = "obj"
               /\ o.direction = "minimize"
               /\ ObjXIndices(o) \subseteq 0..(n - 1)
               /\ ObjAIndices(o) \subseteq 0..(n - 2)
               /\ \A xv \in [0..(n - 1) -> XVals], av \in [0..(n - 2) -> AVals] :
                      ObjValue(o, xv, av) = RosenbrockUpTo(n - 2, xv, av)
               /\ \A av \in [0..(n - 2) -> AVals] :
                      ObjValue(o, [i \in 0..(n - 1) |-> 1], av) = 0

\* C2 witness: an objective built for num_vars = 3 that is 0 at x = [1,1,1], a = [1,1]
C2_Witness ==
    /\ WellFormedCall
    /\ call.args.num_vars = 3
    /\ call.get_obj.status = "ok"
    /\ Len(call.get_obj.value.terms) = 2
    /\ ObjValue(call.get_obj.value, [i \in 0..2 |-> 1], [i \in 0..1 |-> 1]) = 0

\* the constraints the problem definition describes for dimension n
ExpectedLhs0(n) == [k \in 1..n |-> [x |-> "x", sign |-> IF (k - 1) % 2 = 0 THEN 1 ELSE 0 - 1,
                                    xi |-> k - 1, pow |-> 1]]
ExpectedLhs12(n) == [k \in 1..n |-> [x |-> "x", sign |-> 1, xi |-> k - 1, pow |-> 2]]

\* C3: a call with num_vars = n returns, in order, c0: sum (-1)^i x_i >= 0,
\* c1: sum x_i^2 >= p/2, c2: sum x_i^2 <= p, the sums over i = 0..n-1; the result
\* is fixed by the arguments alone, whatever the state of the module.  For n = 3
\* the sum of c0 is 3 at x = [1,-1,1], and c1 and c2 hold at x = [1,1,1], p = 3.
C3_Constraints ==
    WellFormedCall =>
        /\ call.status = "returned"
        /\ Len(call.constrs) = 3
        /\ LET c0 == call.constrs[1]
               c1 == call.constrs[2]
               c2 == call.constrs[3]
               n == call.args.num_vars
           IN  /\ c0.name = "c0" /\ c0.lhs = ExpectedLhs0(n) /\ c0.op = ">=" /\ c0.pcol < 0
               /\ c1.name = "c1" /\ c1.lhs = ExpectedLhs12(n) /\ c1.op = ">="
               /\ c1.p = "p" /\ c1.pcol = 0 /\ c1.div = 2
               /\ c2.name = "c2" /\ c2.lhs = ExpectedLhs12(n) /\ c2.op = "<="
               /\ c2.p = "p" /\ c2.pcol = 0 /\ c2.div = 1
               /\ n = 3 =>
                     /\ LhsValue(c0, [i \in 0..2 |-> IF i = 1 THEN 0 - 1 ELSE 1]) = 3
                     /\ ConstraintHolds(c1, [i \in 0..2 |-> 1], [i \in {0} |-> 3])
                     /\ ConstraintHolds(c2, [i \in 0..2 |-> 1], [i \in {0} |-> 3])

\* C4: a call whose list of decision-variable names has not exactly one entry, or
\* whose list of parameter names has not exactly two, raises and returns nothing.
C4_Arity ==
    (call.status # "none"
        /\ (Len(call.args.var_keys) # 1 \/ Len(call.args.param_keys) # 2)) =>
        /\ call.status # "returned"
        /\ call.obj = <<>>
        /\ call.constrs = <<>>

\* C5: a call with num_vars < 2 raises: get_obj returns no objective (in particular
\* none whose sum is empty) and rosenbrock returns nothing.
C5_FailFast ==
    (call.status # "none" /\ call.args.num_vars < 2) =>
        /\ call.get_obj.status # "ok"
        /\ call.status \in {"ValueError", "AttributeError"}
        /\ call.obj = <<>>
        /\ call.constrs = <<>>

\* C5 witness: a call with the expected name lists and num_vars = 1 has raised at
\* f.minimize
C5_Witness ==
    /\ call.status = "AttributeError"
    /\ call.args.var_keys = <<"x">>
    /\ call.args.param_keys = <<"p", "a">>
    /\ call.args.num_vars = 1
    /\ call.get_obj.status = "AttributeError"

\* two arrays share no drawn value
DisjointDraws(A, B) ==
    \/ Size(A) = 0
    \/ Size(B) = 0
    \/ A.first + Size(A) <= B.first
    \/ B.first + Size(B) <= A.first

SplitNames == {"train", "test", "dev"}

\* C6: with test_size + val_size < N the pipeline holds N datapoints, in a train,
\* a test and a validation split of N - test_size - val_size, test_size and
\* val_size rows; p and a have the same number of rows in each split, and no drawn
\* row is in two splits.
C6_Splits ==
    (data.status = "split" /\ data.test_size + data.val_size < data.total) =>
        /\ data.train.p.rows = data.total - data.test_size - data.val_size
        /\ data.test.p.rows = data.test_size
        /\ data.dev.p.rows = data.val_size
        /\ data.train.p.rows + data.test.p.rows + data.dev.p.rows = data.total
        /\ \A s \in SplitNames : data[s].a.rows = data[s].p.rows
        /\ \A s, t \in SplitNames : s # t =>
              /\ DisjointDraws(data[s].p, data[t].p)
              /\ DisjointDraws(data[s].a, data[t].a)
              /\ DisjointDraws(data[s].p, data[t].a)
        /\ script = "submit_rb.py" =>
              data.total = config.samples + config.test_size + config.val_size
        /\ script = "rosenbrock.py" => data.total = config.num_data

\* C6 witness: submit_rb.py has sampled 800 + 100 + 1000 rows for size 10
C6_Witness ==
    /\ script = "submit_rb.py"
    /\ data.status = "split"
    /\ data.total = 1900
    /\ data.train.p.rows = 800
    /\ data.train.a.cols = 10
    /\ data.test_size + data.val_size < data.total

CeilDiv(R, B) == (R + B - 1) \div B

\* the rows a pass has yielded so far, in the order yielded
RECURSIVE Flatten(_)
Flatten(bs) == IF bs = <<>> THEN <<>> ELSE Head(bs) \o Flatten(Tail(bs))

\* what holds of a pass at every moment
C7_PassShape ==
    pass.status # "none" =>
        LET R == pass.rows
            B == pass.batch_size
            bs == pass.batches
            seen == Flatten(bs)
        IN  /\ Len(bs) <= CeilDiv(R, B)
            /\ \A k \in 1..Len(bs) :
                  Len(bs[k]) = IF k < CeilDiv(R, B) THEN B ELSE R - B * (CeilDiv(R, B) - 1)
            /\ \A i, j \in 1..Len(seen) : seen[i] = seen[j] => i = j
            /\ \A i \in 1..Len(seen) : seen[i] \in 1..R
            /\ seen = SubSeq(pass.order, 1, Len(seen))
            /\ pass.status = "exhausted" =>
                  /\ Len(bs) = CeilDiv(R, B)
                  /\ \A r \in 1..R : \E i \in 1..Len(seen) : seen[i] = r
                  /\ ENABLED (\E order \in Permutation(R) : Iter(pass.loader, R, B, order))
            /\ BatchSizes(105, 32, pass.drop_last) = <<32, 32, 32, 9>>

\* C7: a pass over R rows with batch size B yields ceil(R/B) batches, all of B rows
\* but the last, which has the remaining rows; every row is in exactly one batch;
\* the pass ends, and the loader can then be iterated again.
C7_Pass ==
    /\ []C7_PassShape
    /\ (pass.status = "iterating") ~> (pass.status = "exhausted")

\* C7 witness: a finished shuffled pass over 3 rows with batch size 2: sizes [2, 1]
C7_Witness ==
    /\ pass.status = "exhausted"
    /\ pass.rows = 3
    /\ pass.batch_size = 2
    /\ pass.order # Identity(3)
    /\ Len(pass.batches) = 2
    /\ Len(pass.batches[1]) = 2
    /\ Len(pass.batches[2]) = 1

\* C8: wherever loaders are built, a pass over the test split takes the rows in
\* their original order, and the train and validation loaders shuffle.
C8_TestOrder ==
    /\ pass.status # "none" /\ pass.loader = "test" => pass.order = Identity(pass.rows)
    /\ loaders.status = "built" =>
          /\ ~loaders.test.shuffle
          /\ loaders.train.shuffle
          /\ loaders.dev.shuffle

\* C9: a size or samples outside the choices ends the driver before any sampling
\* or lookup; for an accepted size the lookup succeeds and gives the one value the
\* table's literal writes for that key.
C9_Config ==
    script = "submit_rb.py" =>
        /\ pc # "crashed"
        /\ pc = "exit" => (config = NoConfig /\ rng = 0 /\ data = NoData)
        /\ config.status # "none" =>
              (config.size \in SizeChoices /\ config.samples \in SamplesChoices)
        /\ config.status = "configured" =>
              \A k \in 1..Len(hsize_literal) :
                  hsize_literal[k][1] = config.size => hsize_literal[k][2] = config.hsize

\* C10: in rosenbrock.py's driver, for num_vars >= 2, x has width num_vars (the
\* solution map's output), a width num_vars - 1 and p width 1; the objective and
\* the constraints read a only at 0..num_vars-2, x only at 0..num_vars-1 and p only
\* at column 0, and the solution map's input width is the width of p plus that of a.
C10_InBounds ==
    (call.status = "returned" /\ call.args.site = "driver" /\ call.args.num_vars >= 2) =>
        LET n == call.args.num_vars
            xw == smap.outsize
            aw == data.train.a.cols
            pw == data.train.p.cols
        IN  /\ xw = n /\ aw = n - 1 /\ pw = 1
            /\ \A s \in SplitNames : data[s].a.cols = aw /\ data[s].p.cols = pw
            /\ \A k \in 1..Len(call.obj) :
                  /\ ObjXIndices(call.obj[k]) \subseteq 0..(xw - 1)
                  /\ ObjAIndices(call.obj[k]) \subseteq 0..(aw - 1)
                  /\ ObjAIndices(call.obj[k]) \subseteq 0..(n - 2)
            /\ \A k \in 1..Len(call.constrs) :
                  /\ ConXIndices(call.constrs[k]) \subseteq 0..(xw - 1)
                  /\ ConPIndices(call.constrs[k]) \subseteq {0}
                  /\ ConPIndices(call.constrs[k]) \subseteq 0..(pw - 1)
            /\ smap.insize = pw + aw

\* C10 witness: the driver's call has returned for num_vars = 3 and the objective
\* reads a[:, 1] and x[:, 2]
C10_Witness ==
    /\ call.status = "returned"
    /\ call.args.site = "driver"
    /\ call.args.num_vars = 3
    /\ smap.status = "built"
    /\ 1 \in ObjAIndices(call.obj[1])
    /\ 2 \in ObjXIndices(call.obj[1])
    /\ 2 \in ConXIndices(call.constrs[1])

====
